---- MODULE Spec2Model ----
(***************************************************************************)
(* FastMessageMuteSystem: the NapCat client (correlated calls, receive     *)
(* loop, ban queue and its worker, the connect/listen/disconnect loop of   *)
(* run()) and the spam detector, as state machines.                        *)
(*                                                                         *)
(* Time is counted in tenths of a second.  Timers (asyncio.wait_for,       *)
(* asyncio.sleep) may fire at their deadline or later, never earlier.      *)
(* A timeout of asyncio.wait_for cancels the awaited future at the         *)
(* deadline or later (older asyncio versions cancel it only once the       *)
(* waiting coroutine has been scheduled again, so a reply can still win    *)
(* after the deadline); the waiting coroutine then resumes in a later      *)
(* step, and until it does the cancelled future stays in its table.        *)
(***************************************************************************)
EXTENDS Integers, Sequences, FiniteSets, TLC

\* ------------------------------------------------------------ bounds
MaxConnects == 2
MaxSubmits == 2
MaxEcho == 3
MaxTicks == 2
MaxDetTicks == 2
MaxViolations == 1021
MaxAlive == 51
MaxEvents == 3
MaxCreated == 1
MaxOthers == 48

\* ------------------------------------------------- program constants
\* NapcatClient.MAX_CONCURRENT_HANDLERS
MAX_CONCURRENT_HANDLERS == 50
\* NapcatClient.BAN_QUEUE_INTERVAL = 0.8 s
BAN_QUEUE_INTERVAL == 8
\* NapcatClient.BAN_TASK_TIMEOUT = 30.0 s
BAN_TASK_TIMEOUT == 300
\* set_group_ban(..., timeout=60.0)
DEFAULT_BAN_WAIT == 600
\* call_api(..., timeout=30.0)
DEFAULT_CALL_TIMEOUT == 300
\* run(): await asyncio.sleep(5) before the next connection attempt
RECONNECT_DELAY == 50
\* UserMessageRecord.timestamps: deque(maxlen=100)
DEQUE_MAXLEN == 100
\* the floats of _calculate_mute_duration are IEEE doubles: a value of
\* 2^1024 or more is not finite
FLOAT_MAX_EXP == 1024

\* ------------------------------------------------------ input domains
\* handler tasks created by listen() (asyncio.create_task)
Callers == {"h1", "h2"}
\* (group_id, user_id)
Keys == {<<1, 1>>, <<1, 2>>}
Durations == {60}
BanWaits == {5, DEFAULT_BAN_WAIT}
CallTimeouts == {DEFAULT_CALL_TIMEOUT}
Retcodes == {0, 1}
\* how far the clock may advance in one step
TickSteps == {BAN_QUEUE_INTERVAL, BAN_TASK_TIMEOUT + 1}
\* the fields of the frames the bridge may push: with and without a status
\* or retcode, with the id of a request, an id never handed out or no id,
\* and with the post_type of a heartbeat, of a message or none
FrameKinds == {"reply", "event"}
FrameEchoes == {"", "echo_1", "echo_0"}
FramePostTypes == {"", "meta_event", "message"}

\* the detector's inputs
DetGroups == {1}
\* the groups whose flag is toggled in the runs of the state file
PersistGroups == {1, 2}
DetUsers == {1, 2}
\* MuteConfig with its defaults (seconds)
DefaultMute ==
    [time_window |-> 10, message_threshold |-> 5, mute_duration |-> 60,
     mute_multiplier |-> 2, max_mute_duration |-> 3600]
\* the configurations tried; mute_multiplier is a power of two, so that
\* every float product below is exact
MuteConfigs ==
    {DefaultMute,
     [time_window |-> 10, message_threshold |-> 2, mute_duration |-> 60,
      mute_multiplier |-> 1, max_mute_duration |-> 3600],
     [time_window |-> 10, message_threshold |-> 1, mute_duration |-> 30,
      mute_multiplier |-> 4, max_mute_duration |-> 100]}
\* the number of violations user 1 of group 1 has behind them at the start
ViolationStarts == {0, 1019}
\* clock steps of the detector runs: 1 s and 1 h
DetTickSteps == {10, 36000}

VARIABLES
    now,              \* time.time()
    nTicks,           \* number of clock advances so far (bounded)
    ws,               \* self.ws: "none" | "open" | "closed" (closed by the peer)
    inbox,            \* the next frame the receive loop will read
    main_pc,          \* position of run(): "connect" | "listen" | "retry_sleep" |
                      \* "disconnect" | "await_worker"
    main_wake,        \* when run()'s asyncio.sleep(5) may return
    queues,           \* every asyncio.Queue ever created, by creation order
    ban_queue,        \* self._ban_queue: index into queues, 0 = None
    workers,          \* every worker task ever created, by creation order
    ban_worker_task,  \* self._ban_worker_task: index into workers, 0 = None
    pending_bans,     \* self._pending_bans
    echo_counter,     \* self._echo_counter
    echo_callbacks,   \* self._echo_callbacks: echo id -> future
    tasks,            \* every BanTask ever created, by creation order
    callers,          \* the handler tasks
    sent,             \* history: the tasks whose set_group_ban request a worker
                      \* sent to the bridge, in the order sent
    lastSend,         \* history: when, and by which worker, the last was sent
    message_handlers, \* self._message_handlers
    semaphores,       \* every asyncio.Semaphore listen() created, by creation
                      \* order: its free permits; the last is
                      \* self._handler_semaphore
    created,          \* _dispatch_message tasks created and not yet run
    dispatch,         \* per semaphore: the _dispatch_message tasks blocked in
                      \* its acquire(), and those inside "async with", by the
                      \* handler they await
    disp_log,         \* history: the handler outcome in the last step of a
                      \* _dispatch_message task
    config,           \* SpamDetector.config (get_config().mute)
    enabled,          \* SpamDetector._enabled: group -> bool
    records,          \* SpamDetector._records: (group, user) -> record
    state_file,       \* data/mute_state.json
    det_ret           \* history: the detector's last operation and its outcome

clientVars == <<now, nTicks, ws, inbox, main_pc, main_wake, queues, ban_queue,
                workers, ban_worker_task, pending_bans, echo_counter,
                echo_callbacks, tasks, callers, sent, lastSend>>

dispVars == <<message_handlers, semaphores, created, dispatch, disp_log>>

detVars == <<config, enabled, records, state_file, det_ret>>

vars == <<clientVars, dispVars, detVars>>

\* ------------------------------------------------------------ values
\* no correlation id
NoEcho == ""
\* the post_type of a frame that has none
NoPostType == ""
\* a parsed frame, by the fields listen() looks at: kind is "reply" when the
\* frame has a "status" or "retcode" field and "event" when it has neither,
\* echo is its "echo" field, post_type its "post_type" field
Frame(kind, e, r, pt) ==
    [kind |-> kind, echo |-> e, retcode |-> r, post_type |-> pt]
NoFrame == Frame("none", NoEcho, 0, NoPostType)
\* the answer to a request: {"status": ..., "retcode": r, "echo": e}
ReplyFrame(e, r) == Frame("reply", e, r, NoPostType)
\* a group message
EventFrame == Frame("event", NoEcho, 0, "message")

\* an asyncio.Future: st is "pending" | "result" | "exception" | "cancelled"
NewFuture == [st |-> "pending", val |-> NoFrame]
Done(f) == f.st # "pending"
SetResult(f, v) == [st |-> "result", val |-> v]
\* the exception a future or a caller ends with: "timeout" is
\* asyncio.TimeoutError, "error" any other Exception
ErrFrame(kind) == Frame(kind, NoEcho, 0, NoPostType)
SetException(f, kind) == [st |-> "exception", val |-> ErrFrame(kind)]
Cancel(f) == [st |-> "cancelled", val |-> NoFrame]

NoKey == <<0, 0>>
\* a handler task; conn is the connection (1, 2, ...) its request was sent
\* on; disc is history: the call was pending when a disconnect() began
IdleCaller == [pc |-> "idle", key |-> NoKey, task |-> 0, echo |-> NoEcho,
               deadline |-> 0, conn |-> 0, disc |-> FALSE]
NewWorker(q) == [pc |-> "get", cancel |-> FALSE, task |-> 0, echo |-> NoEcho,
                 deadline |-> 0, q |-> q]

\* f"echo_{n}"
EchoName(n) == "echo_" \o ToString(n)

\* a counter that wraps: ids come round again
get_echo_wrap(counter) ==
    [counter |-> (counter % 2) + 1, echo |-> EchoName((counter % 2) + 1)]

\* self._get_echo(): the counter is incremented and formatted
get_echo(counter) == [counter |-> counter + 1, echo |-> EchoName(counter + 1)]

\* asyncio.Semaphore(self.MAX_CONCURRENT_HANDLERS): its free permits
NewSemaphore == MAX_CONCURRENT_HANDLERS
\* no _dispatch_message task uses the semaphore
NoDispatch ==
    [blocked |-> 0, at |-> [i \in 1..Len(message_handlers) |-> 0]]
\* the outcome, "return" or "raise", of awaiting handler number handler in
\* a _dispatch_message task that holds a permit of semaphore sem
Step(op, sem, handler) == [op |-> op, sem |-> sem, handler |-> handler]
\* the other steps of the tasks
NoStep == Step("none", 0, 0)

\* the client after NapcatClient.__init__
InitClient ==
    /\ now = 0
    /\ nTicks = 0
    /\ ws = "none"
    /\ inbox = NoFrame
    /\ main_pc = "connect"
    /\ main_wake = 0
    /\ queues = <<>>
    /\ ban_queue = 0
    /\ workers = <<>>
    /\ ban_worker_task = 0
    /\ pending_bans = {}
    /\ echo_counter = 0
    /\ echo_callbacks = <<>>
    /\ tasks = <<>>
    /\ callers = [c \in Callers |-> IdleCaller]
    /\ sent = <<>>
    /\ lastSend = [at |-> 0, worker |-> 0]

\* add_message_handler(handler) for each handler, before run() connects
InitDispatch(handlers) ==
    /\ message_handlers = handlers
    /\ semaphores = <<>>
    /\ created = 0
    /\ dispatch = <<>>
    /\ disp_log = NoStep

\* ------------------------------------------------------------- clock
Tick(d, max) ==
    /\ nTicks < max
    /\ now' = now + d
    /\ nTicks' = nTicks + 1
    /\ UNCHANGED <<detVars, dispVars, main_wake, ws, inbox, main_pc, queues,
                   ban_queue, workers, ban_worker_task, pending_bans,
                   echo_counter, echo_callbacks, tasks, callers, sent,
                   lastSend>>

\* an await with no timeout at all
TimedOutNever(deadline) == FALSE

\* asyncio.wait_for(future, timeout): the timer set for the deadline has
\* fired
TimedOut(deadline) == now >= deadline

\* ------------------------------------------------- dictionary helpers
\* self._echo_callbacks[echo] = future
DictPut(d, k, v) == [x \in DOMAIN d \cup {k} |-> IF x = k THEN v ELSE d[x]]
\* self._echo_callbacks.pop(echo, None)
DictPop(d, k) == [x \in DOMAIN d \ {k} |-> d[x]]

\* ------------------------------------------------------ run(): main.py
\* client.connect() followed, with no suspension in between, by the start
\* of client.listen(): a new socket, a new queue and a new worker
Connect ==
    /\ main_pc = "connect"
    /\ Len(queues) < MaxConnects
    /\ ws' = "open"
    /\ inbox' = NoFrame
    /\ queues' = Append(queues, <<>>)
    /\ ban_queue' = Len(queues) + 1
    /\ workers' = Append(workers, NewWorker(Len(queues) + 1))
    /\ ban_worker_task' = Len(workers) + 1
    /\ main_pc' = "listen"
    /\ semaphores' = Append(semaphores, NewSemaphore)
    /\ dispatch' = Append(dispatch, NoDispatch)
    /\ UNCHANGED <<detVars, message_handlers, created, disp_log, main_wake,
                   now, nTicks, pending_bans, echo_counter, echo_callbacks,
                   tasks, callers, sent, lastSend>>

\* websockets.connect() raises: run() logs and sleeps; self.ws, the queue and
\* the worker are as disconnect() left them
ConnectFail ==
    /\ main_pc = "connect"
    /\ main_pc' = "retry_sleep"
    /\ main_wake' = now + RECONNECT_DELAY
    /\ UNCHANGED <<detVars, dispVars, now, nTicks, ws, inbox, queues,
                   ban_queue, workers, ban_worker_task, pending_bans,
                   echo_counter, echo_callbacks, tasks, callers, sent,
                   lastSend>>

\* the sleep of run() returns: its finally clause calls disconnect()
RetryWake ==
    /\ main_pc = "retry_sleep"
    /\ now >= main_wake
    /\ main_pc' = "disconnect"
    /\ main_wake' = 0
    /\ UNCHANGED <<detVars, dispVars, now, nTicks, ws, inbox, queues,
                   ban_queue, workers, ban_worker_task, pending_bans,
                   echo_counter, echo_callbacks, tasks, callers, sent,
                   lastSend>>

\* Task.cancel() on a worker: the future the worker awaits is cancelled at
\* once, the worker sees CancelledError when it next runs
CancelWorker(w) == [w EXCEPT !.cancel = TRUE]

CancelAwaited(cbs, w) ==
    IF w.pc = "call" /\ w.echo \in DOMAIN cbs /\ ~Done(cbs[w.echo])
    THEN [cbs EXCEPT ![w.echo] = Cancel(@)]
    ELSE cbs

\* a disconnect() that drops the worker without cancelling and awaiting it
DisconnectNoCancel ==
    /\ main_pc = "disconnect"
    /\ ban_worker_task' = 0
    /\ ws' = "none"
    /\ inbox' = NoFrame
    /\ main_pc' = "connect"
    /\ UNCHANGED <<detVars, dispVars, main_wake, now, nTicks, queues,
                   ban_queue, workers, pending_bans, echo_counter,
                   echo_callbacks, tasks, callers, sent, lastSend>>

\* history: the calls of handlers that wait for a reply at this moment
CallsPending(cl) ==
    [c \in Callers |-> IF cl[c].pc = "wait_call"
                       THEN [cl[c] EXCEPT !.disc = TRUE] ELSE cl[c]]

\* disconnect(), up to "await self._ban_worker_task"
DisconnectCancel ==
    /\ main_pc = "disconnect"
    /\ callers' = CallsPending(callers)
    /\ IF ban_worker_task # 0
       THEN /\ workers' = [workers EXCEPT ![ban_worker_task] = CancelWorker(@)]
            /\ echo_callbacks' = CancelAwaited(echo_callbacks, workers[ban_worker_task])
            /\ main_pc' = "await_worker"
            /\ UNCHANGED <<ws, inbox>>
       ELSE /\ ws' = "none"
            /\ inbox' = NoFrame
            /\ main_pc' = "connect"
            /\ UNCHANGED <<workers, echo_callbacks>>
    /\ UNCHANGED <<detVars, dispVars, main_wake, now, nTicks, queues,
                   ban_queue, ban_worker_task, pending_bans, echo_counter,
                   tasks, sent, lastSend>>

\* disconnect(), after the worker task has ended: forget it, close the socket
DisconnectFinish ==
    /\ main_pc = "await_worker"
    /\ workers[ban_worker_task].pc = "done"
    /\ ban_worker_task' = 0
    /\ ws' = "none"
    /\ inbox' = NoFrame
    /\ main_pc' = "connect"
    /\ UNCHANGED <<detVars, dispVars, main_wake, now, nTicks, queues,
                   ban_queue, workers, pending_bans, echo_counter,
                   echo_callbacks, tasks, callers, sent, lastSend>>

\* ------------------------------------------- listen(): frame routing
\* 'if "echo" in data and ("status" in data or "retcode" in data)'
IsReply(f) == f.echo # NoEcho /\ f.kind = "reply"

\* a receive loop that skips no heartbeat
IsMetaEventNever(f) == FALSE

\* 'if data.get("post_type") == "meta_event"'
IsMetaEvent(f) == f.post_type = "meta_event"

\* a reply with an unknown id falls through to the dispatch
ForwardedUnknown(cbs, f) ==
    /\ ~IsMetaEvent(f)
    /\ (~IsReply(f) \/ f.echo \notin DOMAIN cbs)

\* the frames that reach asyncio.create_task(self._dispatch_message(data)):
\* a reply is dropped by "continue" whether or not its id is known, a
\* meta_event by the "continue" of line 118
Forwarded(cbs, f) == ~IsReply(f) /\ ~IsMetaEvent(f)

\* --------------------------------------------------------- the bridge
\* the bridge pushes a frame
BridgeSend(f) ==
    /\ ws = "open"
    /\ inbox = NoFrame
    /\ Forwarded(echo_callbacks, f) => \E c \in Callers : callers[c].pc = "idle"
    /\ inbox' = f
    /\ UNCHANGED <<detVars, dispVars, main_wake, now, nTicks, ws, main_pc,
                   queues, ban_queue, workers, ban_worker_task, pending_bans,
                   echo_counter, echo_callbacks, tasks, callers, sent,
                   lastSend>>

\* the peer closes the connection
BridgeClose ==
    /\ ws = "open"
    /\ ws' = "closed"
    /\ UNCHANGED <<detVars, dispVars, main_wake, now, nTicks, inbox, main_pc,
                   queues, ban_queue, workers, ban_worker_task, pending_bans,
                   echo_counter, echo_callbacks, tasks, callers, sent,
                   lastSend>>

\* ------------------------------------------------------------ listen()
\* matching by arrival order instead of by id: the oldest waiting call wins
ResolveOldest(cbs, f) ==
    LET P == {n \in 1..echo_counter :
                 EchoName(n) \in DOMAIN cbs /\ ~Done(cbs[EchoName(n)])}
        oldest == CHOOSE n \in P : \A x \in P : n <= x
    IN  IF P = {} THEN cbs
        ELSE [cbs EXCEPT ![EchoName(oldest)] = SetResult(@, f)]

\* a frame with "echo" and "status"/"retcode": resolve the pending call.
\* set_result on a future that is already done raises InvalidStateError,
\* which the loop's "except Exception" logs.
ResolveReply(cbs, f) ==
    IF f.echo \in DOMAIN cbs /\ ~Done(cbs[f.echo])
    THEN [cbs EXCEPT ![f.echo] = SetResult(@, f)]
    ELSE cbs

\* asyncio.create_task(self._dispatch_message(data)): a handler task starts
StartHandler(c) == [IdleCaller EXCEPT !.pc = "run"]

ListenRecvStep ==
    /\ main_pc = "listen"
    /\ inbox # NoFrame
    /\ inbox' = NoFrame
    /\ echo_callbacks' = IF IsReply(inbox)
                         THEN ResolveReply(echo_callbacks, inbox)
                         ELSE echo_callbacks
    /\ IF Forwarded(echo_callbacks, inbox)
       THEN \E c \in Callers :
                 /\ callers[c].pc = "idle"
                 /\ callers' = [callers EXCEPT ![c] = StartHandler(c)]
       ELSE UNCHANGED callers
    /\ UNCHANGED <<detVars, main_wake, now, nTicks, ws, main_pc,
                   queues, ban_queue, workers, ban_worker_task, pending_bans,
                   echo_counter, tasks, sent, lastSend>>

\* the same, of a handler task that is not counted against the limiter
ListenRecv == ListenRecvStep /\ UNCHANGED dispVars

\* websockets.ConnectionClosed ends the receive loop; run() goes on to its
\* finally clause
ListenClosed ==
    /\ main_pc = "listen"
    /\ ws = "closed"
    /\ inbox = NoFrame
    /\ main_pc' = "disconnect"
    /\ UNCHANGED <<detVars, dispVars, main_wake, now, nTicks, ws, inbox,
                   queues, ban_queue, workers, ban_worker_task, pending_bans,
                   echo_counter, echo_callbacks, tasks, callers, sent,
                   lastSend>>

\* ------------------------------------------------- _call_api_internal
\* what the start of a call does to the correlation table: nothing when
\* self.ws is None (RuntimeError before an id is taken); otherwise the new id
\* is registered, and popped again at once when ws.send raises
CallStarts == ws = "open"
CallTakesEcho == ws # "none"
CallTable(cbs, e) == IF CallStarts THEN DictPut(cbs, e, NewFuture) ELSE cbs

\* ------------------------------------------------- _ban_queue_worker
\* a result set without looking whether the future is done
ResolveOverwrite(f, g) == g

\* task.future.set_result / set_exception under "if not task.future.done()"
Resolve(f, g) == IF Done(f) THEN f ELSE g

\* a finally clause that leaves the pending set alone
DiscardNothing(pending, key) == pending

\* the finally clause of the worker, and its stale branch: the key leaves the
\* pending set and the task is marked done
Discard(pending, key) == pending \ {key}

\* a queue that hands out the newest task first
QueueGetLifo(q) == [task |-> q[Len(q)], rest |-> SubSeq(q, 1, Len(q) - 1)]

\* self._ban_queue.get(): the oldest task, and the queue without it
QueueGet(q) == [task |-> Head(q), rest |-> Tail(q)]

\* when "await asyncio.sleep(self.BAN_QUEUE_INTERVAL)" may return
SleepUntil == now + BAN_QUEUE_INTERVAL

\* a worker that never abandons a task
IsStaleNever(t) == FALSE

\* "if current_time - task.created_at > self.BAN_TASK_TIMEOUT"
IsStale(t) == now - t.created_at > BAN_TASK_TIMEOUT

WorkerGet(w) ==
    LET wk == workers[w]
        t  == QueueGet(queues[wk.q]).task
        e  == get_echo(echo_counter)
    IN  /\ wk.pc = "get"
        /\ ~wk.cancel
        /\ queues[wk.q] # <<>>
        /\ queues' = [queues EXCEPT ![wk.q] = QueueGet(@).rest]
        /\ IF IsStale(tasks[t])
           THEN \* abandoned: never sent; "continue" goes back to get()
                /\ tasks' = [tasks EXCEPT
                       ![t].future = Resolve(@, SetException(@, "timeout")),
                       ![t].served = TRUE]
                /\ pending_bans' = Discard(pending_bans, tasks[t].key)
                /\ workers' = [workers EXCEPT ![w].q = ban_queue]
                /\ UNCHANGED <<echo_counter, echo_callbacks, sent, lastSend>>
           ELSE IF CallStarts
           THEN \* the request is sent; the worker waits for the reply
                /\ e.counter <= MaxEcho
                /\ echo_counter' = e.counter
                /\ echo_callbacks' = CallTable(echo_callbacks, e.echo)
                /\ sent' = Append(sent, t)
                /\ lastSend' = [at |-> now, worker |-> w]
                /\ workers' = [workers EXCEPT ![w].pc = "call", ![w].task = t,
                       ![w].echo = e.echo,
                       ![w].deadline = now + BAN_TASK_TIMEOUT]
                /\ UNCHANGED <<tasks, pending_bans>>
           ELSE \* the call raises at once (no socket, or send fails)
                /\ CallTakesEcho => e.counter <= MaxEcho
                /\ echo_counter' = IF CallTakesEcho THEN e.counter
                                   ELSE echo_counter
                /\ tasks' = [tasks EXCEPT
                       ![t].future = Resolve(@, SetException(@, "error")),
                       ![t].served = TRUE]
                /\ pending_bans' = Discard(pending_bans, tasks[t].key)
                /\ workers' = [workers EXCEPT ![w].pc = "sleep",
                       ![w].deadline = SleepUntil]
                /\ UNCHANGED <<echo_callbacks, sent, lastSend>>
        /\ UNCHANGED <<detVars, dispVars, now, nTicks, ws, inbox, main_pc,
                       main_wake, ban_queue, ban_worker_task, callers>>

\* wait_for in the worker's call times out: the awaited future is cancelled
WorkerCallTimeout(w) ==
    LET wk == workers[w]
    IN  /\ wk.pc = "call"
        /\ ~wk.cancel
        /\ ~Done(echo_callbacks[wk.echo])
        /\ TimedOut(wk.deadline)
        /\ echo_callbacks' = [echo_callbacks EXCEPT ![wk.echo] = Cancel(@)]
        /\ UNCHANGED <<detVars, dispVars, now, nTicks, ws, inbox, main_pc,
                       main_wake, queues, ban_queue, workers,
                       ban_worker_task, pending_bans, echo_counter, tasks,
                       callers, sent, lastSend>>

\* the worker resumes from its call: result or TimeoutError, then the
\* finally clauses (pop the id, discard the key), then asyncio.sleep
WorkerCallDone(w) ==
    LET wk  == workers[w]
        fut == echo_callbacks[wk.echo]
        out == IF fut.st = "result" THEN SetResult(fut, fut.val)
               ELSE SetException(fut, "timeout")
    IN  /\ wk.pc = "call"
        /\ ~wk.cancel
        /\ Done(fut)
        /\ echo_callbacks' = DictPop(echo_callbacks, wk.echo)
        /\ tasks' = [tasks EXCEPT ![wk.task].future = Resolve(@, out),
                                  ![wk.task].served = TRUE]
        /\ pending_bans' = Discard(pending_bans, tasks[wk.task].key)
        /\ workers' = [workers EXCEPT ![w].pc = "sleep", ![w].task = 0,
               ![w].echo = NoEcho, ![w].deadline = SleepUntil]
        /\ UNCHANGED <<detVars, dispVars, now, nTicks, ws, inbox, main_pc,
                       main_wake, queues, ban_queue, ban_worker_task,
                       echo_counter, callers, sent, lastSend>>

\* asyncio.sleep(BAN_QUEUE_INTERVAL) returns: back to self._ban_queue.get()
WorkerSleepDone(w) ==
    LET wk == workers[w]
    IN  /\ wk.pc = "sleep"
        /\ ~wk.cancel
        /\ now >= wk.deadline
        /\ workers' = [workers EXCEPT ![w].pc = "get", ![w].deadline = 0,
                                      ![w].q = ban_queue]
        /\ UNCHANGED <<detVars, dispVars, now, nTicks, ws, inbox, main_pc,
                       main_wake, queues, ban_queue, ban_worker_task,
                       pending_bans, echo_counter, echo_callbacks, tasks,
                       callers, sent, lastSend>>

\* CancelledError reaches the worker at its await: inside the call the two
\* finally clauses run (the task's future is left as it is), then "break"
WorkerCancelled(w) ==
    LET wk == workers[w]
    IN  /\ wk.cancel
        /\ wk.pc # "done"
        /\ IF wk.pc = "call"
           THEN /\ echo_callbacks' = DictPop(echo_callbacks, wk.echo)
                /\ tasks' = [tasks EXCEPT ![wk.task].served = TRUE]
                /\ pending_bans' = Discard(pending_bans, tasks[wk.task].key)
           ELSE UNCHANGED <<echo_callbacks, tasks, pending_bans>>
        /\ workers' = [workers EXCEPT ![w].pc = "done", ![w].task = 0,
                                      ![w].echo = NoEcho,
                                      ![w].deadline = 0]
        /\ UNCHANGED <<detVars, dispVars, now, nTicks, ws, inbox, main_pc,
                       main_wake, queues, ban_queue, ban_worker_task,
                       echo_counter, callers, sent, lastSend>>

\* ------------------------------------------------------ set_group_ban
\* history: the earliest task for this key that no worker has yet finished
\* with (0 when there is none) at the moment a new task is created
Unfinished(key) ==
    {i \in 1..Len(tasks) : tasks[i].key = key /\ ~tasks[i].served}
FirstUnfinished(key) ==
    IF Unfinished(key) = {} THEN 0
    ELSE CHOOSE i \in Unfinished(key) : \A j \in Unfinished(key) : i <= j

\* "if key in self._pending_bans"
IsQueued(key) == key \in pending_bans

\* the BanTask of lines 291-297
NewTask(key, d) ==
    [key |-> key, duration |-> d, created_at |-> now, future |-> NewFuture,
     pred |-> FirstUnfinished(key), served |-> FALSE]

\* the handler calls set_group_ban(group, user, d, timeout): either the
\* synthetic reply, or a task is created, its key added to the pending set,
\* the task put on the current queue, and the caller waits
SubmitStep(c, key, d, timeout) ==
    /\ callers[c].pc = "run"
    /\ ban_queue # 0
    /\ IF IsQueued(key)
       THEN \* {"status": "ok", "retcode": 0, "message": "已在队列中"}
            /\ callers' = [callers EXCEPT ![c] = IdleCaller]
            /\ UNCHANGED <<tasks, pending_bans, queues>>
       ELSE /\ Len(tasks) < MaxSubmits
            /\ tasks' = Append(tasks, NewTask(key, d))
            /\ pending_bans' = pending_bans \cup {key}
            /\ queues' = [queues EXCEPT ![ban_queue] = Append(@, Len(tasks) + 1)]
            /\ callers' = [callers EXCEPT ![c] = [IdleCaller EXCEPT
                  !.pc = "wait_ban", !.key = key, !.task = Len(tasks) + 1,
                  !.deadline = now + timeout]]
    /\ UNCHANGED <<detVars, now, nTicks, ws, inbox, main_pc,
                   main_wake, ban_queue, workers, ban_worker_task,
                   echo_counter, echo_callbacks, sent, lastSend>>

\* the same, of a handler task that is not counted against the limiter
Submit(c, key, d, timeout) == SubmitStep(c, key, d, timeout) /\ UNCHANGED dispVars

\* wait_for(future, timeout) in set_group_ban times out
BanWaitTimeout(c) ==
    LET cl == callers[c]
    IN  /\ cl.pc = "wait_ban"
        /\ ~Done(tasks[cl.task].future)
        /\ TimedOut(cl.deadline)
        /\ tasks' = [tasks EXCEPT ![cl.task].future = Cancel(@)]
        /\ UNCHANGED <<detVars, dispVars, now, nTicks, ws, inbox, main_pc,
                       main_wake, queues, ban_queue, workers,
                       ban_worker_task, pending_bans, echo_counter,
                       echo_callbacks, callers, sent, lastSend>>

\* what awaiting a finished future gives: its result, TimeoutError when
\* wait_for cancelled it, or the exception stored in it
Outcome(f) ==
    IF f.st = "result" THEN f.val
    ELSE IF f.st = "cancelled" THEN ErrFrame("timeout")
    ELSE f.val

\* a caller that leaves the pending set to the worker
OnBanWaitErrorKeep(pending, key, out) == pending

\* "except asyncio.TimeoutError: self._pending_bans.discard(key)": taken for
\* the caller's own timeout and for a TimeoutError the worker stored
OnBanWaitError(pending, key, out) ==
    IF out.kind = "timeout" THEN pending \ {key} ELSE pending

\* the caller of set_group_ban resumes
BanWaitDoneStep(c) ==
    LET cl  == callers[c]
        out == Outcome(tasks[cl.task].future)
    IN  /\ cl.pc = "wait_ban"
        /\ Done(tasks[cl.task].future)
        /\ pending_bans' = OnBanWaitError(pending_bans, cl.key, out)
        /\ callers' = [callers EXCEPT ![c] = IdleCaller]
        /\ UNCHANGED <<detVars, now, nTicks, ws, inbox, main_pc,
                       main_wake, queues, ban_queue, workers,
                       ban_worker_task, echo_counter, echo_callbacks, tasks,
                       sent, lastSend>>

\* the same, of a handler task that is not counted against the limiter
BanWaitDone(c) == BanWaitDoneStep(c) /\ UNCHANGED dispVars

\* ----------------------------------------------------------- call_api
\* the handler calls call_api(action, params, timeout)
CallApiStep(c, timeout) ==
    LET e == get_echo(echo_counter)
    IN  /\ callers[c].pc = "run"
        /\ CallTakesEcho => e.counter <= MaxEcho
        /\ echo_counter' = IF CallTakesEcho THEN e.counter ELSE echo_counter
        /\ echo_callbacks' = CallTable(echo_callbacks, e.echo)
        /\ callers' = [callers EXCEPT ![c] =
               IF CallStarts
               THEN [IdleCaller EXCEPT !.pc = "wait_call", !.echo = e.echo,
                                       !.deadline = now + timeout,
                                       !.conn = Len(queues)]
               ELSE IdleCaller]
        /\ UNCHANGED <<detVars, now, nTicks, ws, inbox, main_pc,
                       main_wake, queues, ban_queue, workers,
                       ban_worker_task, pending_bans, tasks, sent, lastSend>>

\* the same, of a handler task that is not counted against the limiter
CallApi(c, timeout) == CallApiStep(c, timeout) /\ UNCHANGED dispVars

\* wait_for(future, timeout) in _call_api_internal times out
CallTimeout(c) ==
    LET cl == callers[c]
    IN  /\ cl.pc = "wait_call"
        /\ ~Done(echo_callbacks[cl.echo])
        /\ TimedOut(cl.deadline)
        /\ echo_callbacks' = [echo_callbacks EXCEPT ![cl.echo] = Cancel(@)]
        /\ UNCHANGED <<detVars, dispVars, now, nTicks, ws, inbox, main_pc,
                       main_wake, queues, ban_queue, workers,
                       ban_worker_task, pending_bans, echo_counter, tasks,
                       callers, sent, lastSend>>

\* the caller of call_api resumes: the result or TimeoutError, and the
\* finally clause pops the id
CallDoneStep(c) ==
    LET cl == callers[c]
    IN  /\ cl.pc = "wait_call"
        /\ Done(echo_callbacks[cl.echo])
        /\ echo_callbacks' = DictPop(echo_callbacks, cl.echo)
        /\ callers' = [callers EXCEPT ![c] = IdleCaller]
        /\ UNCHANGED <<detVars, now, nTicks, ws, inbox, main_pc,
                       main_wake, queues, ban_queue, workers,
                       ban_worker_task, pending_bans, echo_counter, tasks,
                       sent, lastSend>>

\* the same, of a handler task that is not counted against the limiter
CallDone(c) == CallDoneStep(c) /\ UNCHANGED dispVars

\* the handler returns without a call of either kind
HandlerReturnStep(c) ==
    /\ callers[c].pc = "run"
    /\ callers' = [callers EXCEPT ![c] = IdleCaller]
    /\ UNCHANGED <<detVars, now, nTicks, ws, inbox, main_pc,
                   main_wake, queues, ban_queue, workers, ban_worker_task,
                   pending_bans, echo_counter, echo_callbacks, tasks, sent,
                   lastSend>>

\* the same, of a handler task that is not counted against the limiter
HandlerReturn(c) == HandlerReturnStep(c) /\ UNCHANGED dispVars

\* ------------------------------------------------- _dispatch_message
\* The two handler tasks above are followed one by one; two tasks never
\* use up the permits of a semaphore, so their acquire() is immediate.  The
\* tasks below are counted instead.
RECURSIVE SumTo(_, _)
SumTo(f, n) == IF n = 0 THEN 0 ELSE f[n] + SumTo(f, n - 1)
\* the tasks of one semaphore that are inside "async with"
Inside(d) == SumTo(d.at, Len(d.at))
\* the _dispatch_message tasks inside "async with", over all semaphores
Running == SumTo([g \in DOMAIN dispatch |-> Inside(dispatch[g])], Len(dispatch))
\* those blocked in an acquire()
Blocked == SumTo([g \in DOMAIN dispatch |-> dispatch[g].blocked], Len(dispatch))

\* listen() reads a frame that reaches line 121 and creates the task
ListenDispatch(max) ==
    /\ main_pc = "listen"
    /\ inbox # NoFrame
    /\ Forwarded(echo_callbacks, inbox)
    /\ created < MaxCreated
    /\ created + Blocked + Running < max
    /\ inbox' = NoFrame
    /\ created' = created + 1
    /\ disp_log' = NoStep
    /\ UNCHANGED <<detVars, message_handlers, semaphores, dispatch, now,
                   nTicks, ws, main_pc, main_wake, queues, ban_queue,
                   workers, ban_worker_task, pending_bans, echo_counter,
                   echo_callbacks, tasks, callers, sent, lastSend>>

\* Semaphore.locked(): no permit is free, or a task waits already
Locked(g) == semaphores[g] = 0 \/ dispatch[g].blocked > 0

\* a task enters "async with": one permit less, and it awaits handler
\* number 1 (with no handler registered it leaves at once)
Enter(g) ==
    IF Len(message_handlers) = 0
    THEN /\ UNCHANGED <<semaphores, dispatch>>
    ELSE /\ semaphores' = [semaphores EXCEPT ![g] = @ - 1]
         /\ dispatch' = [dispatch EXCEPT ![g].at[1] = @ + 1]

\* a created task runs for the first time: "async with
\* self._handler_semaphore" on the semaphore of the last listen()
DispatchRun ==
    LET g == Len(semaphores)
    IN  /\ created > 0
        /\ created' = created - 1
        /\ IF Locked(g)
           THEN /\ dispatch' = [dispatch EXCEPT ![g].blocked = @ + 1]
                /\ UNCHANGED semaphores
           ELSE Enter(g)
        /\ disp_log' = NoStep
        /\ UNCHANGED <<detVars, message_handlers, now, nTicks, ws, inbox,
                       main_pc, main_wake, queues, ban_queue, workers,
                       ban_worker_task, pending_bans, echo_counter,
                       echo_callbacks, tasks, callers, sent, lastSend>>

\* a released permit wakes a task blocked in acquire() of that semaphore
DispatchWake(g) ==
    /\ dispatch[g].blocked > 0
    /\ semaphores[g] > 0
    /\ semaphores' = [semaphores EXCEPT ![g] = @ - 1]
    /\ dispatch' = [dispatch EXCEPT ![g].blocked = @ - 1, ![g].at[1] = @ + 1]
    /\ disp_log' = NoStep
    /\ UNCHANGED <<detVars, message_handlers, created, now, nTicks, ws,
                   inbox, main_pc, main_wake, queues, ban_queue, workers,
                   ban_worker_task, pending_bans, echo_counter,
                   echo_callbacks, tasks, callers, sent, lastSend>>

HandlerOutcomes == {"return", "raise"}

\* a loop without the try/except around the handler: an exception ends it
AfterHandlerAbort(i, outcome) ==
    IF outcome = "raise" THEN Len(message_handlers) + 1 ELSE i + 1

\* "for handler in self._message_handlers: try: await handler(data) except
\* Exception: log": whatever the outcome, the next handler is next
AfterHandler(i, outcome) == i + 1

\* "await handler(data)" of handler number i ends for one task that holds a
\* permit of semaphore g; past the last handler the permit is released
HandlerEnds(g, i, outcome) ==
    LET next == AfterHandler(i, outcome)
    IN  /\ dispatch[g].at[i] > 0
        /\ IF next <= Len(message_handlers)
           THEN /\ dispatch' = [dispatch EXCEPT ![g].at[i] = @ - 1,
                                                ![g].at[next] = @ + 1]
                /\ UNCHANGED semaphores
           ELSE /\ dispatch' = [dispatch EXCEPT ![g].at[i] = @ - 1]
                /\ semaphores' = [semaphores EXCEPT ![g] = @ + 1]
        /\ disp_log' = Step(outcome, g, i)
        /\ UNCHANGED <<detVars, message_handlers, created, now, nTicks, ws,
                       inbox, main_pc, main_wake, queues, ban_queue, workers,
                       ban_worker_task, pending_bans, echo_counter,
                       echo_callbacks, tasks, callers, sent, lastSend>>

\* --------------------------------- handler tasks that hold a permit
\* a semaphore that gets no permit back
AfterSlotsLeak(v, started, ended) == v - started

\* the permits left when handler tasks have entered and left "async with"
AfterSlots(v, started, ended) == v - started + ended

\* the handler tasks that are followed one by one, in a session of one
\* connection: a task that starts has taken a permit of the semaphore
\* ("async with self._handler_semaphore"), a task that ends gives it back
SlotChange ==
    LET g       == Len(semaphores)
        started == {c \in Callers :
                       callers[c].pc = "idle" /\ callers'[c].pc # "idle"}
        ended   == {c \in Callers :
                       callers[c].pc # "idle" /\ callers'[c].pc = "idle"}
    IN  /\ semaphores' = [semaphores EXCEPT ![g] =
               AfterSlots(@, Cardinality(started), Cardinality(ended))]
        /\ disp_log' = NoStep
        /\ UNCHANGED <<message_handlers, created, dispatch>>

\* the receive loop reads a frame: a reply resolves its call; the task of
\* an event is followed one by one when it takes one of the last permits
\* (the tasks before it are counted, see ListenDispatch)
ListenRecvSlot ==
    /\ main_pc = "listen"
    /\ inbox # NoFrame
    /\ Forwarded(echo_callbacks, inbox) =>
          /\ ~Locked(Len(semaphores))
          /\ semaphores[Len(semaphores)] <= Cardinality(Callers)
    /\ ListenRecvStep
    /\ SlotChange

\* the bridge pushes an event that the session has room to follow: as one
\* more counted task, or as a task that finds a permit
EventArrives ==
    /\ semaphores # <<>>
    /\ created + Blocked + Running < MaxOthers \/ ~Locked(Len(semaphores))
    /\ BridgeSend(EventFrame)

\* the steps of a handler that holds a permit
HandlerSlot(c) ==
    \/ (\E d \in Durations : SubmitStep(c, <<1, 1>>, d, DEFAULT_BAN_WAIT))
          /\ c = "h1" /\ SlotChange
    \/ CallApiStep(c, DEFAULT_CALL_TIMEOUT) /\ c = "h2" /\ SlotChange
    \/ BanWaitDoneStep(c) /\ SlotChange
    \/ CallDoneStep(c) /\ SlotChange
    \/ HandlerReturnStep(c) /\ SlotChange

\* ------------------------------------------------- the timers' clock
\* the deadlines of the timers that are set and have not fired: those of
\* the wait_for of waiting callers and of the worker's call, and that of
\* the worker's sleep
Deadlines ==
    {callers[c].deadline : c \in {x \in Callers :
        callers[x].pc \in {"wait_ban", "wait_call"}}}
    \cup {workers[w].deadline : w \in {x \in DOMAIN workers :
        workers[x].pc \in {"call", "sleep"} /\ ~workers[x].cancel}}

\* the earliest of a set of times
Earliest(S) == CHOOSE t \in S : \A x \in S : t <= x

\* the event loop sleeps until the next timer is due: it runs every timer
\* that is due before it sleeps again
TimePasses ==
    /\ Deadlines # {}
    /\ \A t \in Deadlines : t > now
    /\ now' = Earliest(Deadlines)
    /\ UNCHANGED <<detVars, dispVars, nTicks, main_wake, ws, inbox,
                   main_pc, queues, ban_queue, workers, ban_worker_task,
                   pending_bans, echo_counter, echo_callbacks, tasks,
                   callers, sent, lastSend>>

\* ------------------------------------------------------ spam detector
\* config values are seconds, the clock counts tenths of a second
Seconds(n) == 10 * n

Min(a, b) == IF a <= b THEN a ELSE b

\* UserMessageRecord()
NewRecord ==
    [timestamps |-> <<>>, violation_count |-> 0, last_mute_time |-> 0,
     last_mute_duration |-> 0, is_muted |-> FALSE]

\* self._records[group_id][user_id] on the defaultdicts: a missing record is
\* created by the access
RecordOf(recs, key) == IF key \in DOMAIN recs THEN recs[key] ELSE NewRecord

\* deque(maxlen=100).append: a full deque drops its oldest entry
DequeAppend(q, x) ==
    IF Len(q) = DEQUE_MAXLEN THEN Append(Tail(q), x) ELSE Append(q, x)

\* sum(1 for ts in record.timestamps if ts > window_start)
RecentCount(q, window_start) ==
    Cardinality({i \in 1..Len(q) : q[i] > window_start})

\* a threshold that must be passed, not only reached
ExceedsStrict(count, threshold) == count > threshold

\* "if recent_count >= self.config.message_threshold"
Exceeds(count, threshold) == count >= threshold

\* floor(log2(n)) for n >= 1: the binary exponent of float(n)
RECURSIVE Log2(_)
Log2(n) == IF n <= 1 THEN 0 ELSE 1 + Log2(n \div 2)

\* the integer v * m^n, or some value above cap when v * m^n is above cap
RECURSIVE ScaleUp(_, _, _, _)
ScaleUp(v, m, n, cap) ==
    IF n = 0 \/ m = 1 \/ v = 0 \/ v > cap THEN v
    ELSE ScaleUp(v * m, m, n - 1, cap)

\* mute_multiplier ** n raises OverflowError when the power is not finite
PowOverflows(cfg, n) == Log2(cfg.mute_multiplier) * n >= FLOAT_MAX_EXP

\* mute_duration * (mute_multiplier ** n) is inf, and int(inf) raises
\* OverflowError, when the product is 2^1024 or more
ProductOverflows(cfg, n) ==
    /\ cfg.mute_duration > 0
    /\ Log2(cfg.mute_duration) + Log2(cfg.mute_multiplier) * n >= FLOAT_MAX_EXP

\* _calculate_mute_duration(record) for record.violation_count = k:
\* min(int(mute_duration * mute_multiplier ** (k - 1)), max_mute_duration),
\* or the OverflowError of the float arithmetic
calculate_mute_duration(cfg, k) ==
    IF PowOverflows(cfg, k - 1) \/ ProductOverflows(cfg, k - 1)
    THEN [kind |-> "raise", value |-> 0]
    ELSE [kind |-> "duration",
          value |-> Min(ScaleUp(cfg.mute_duration, cfg.mute_multiplier, k - 1,
                                cfg.max_mute_duration),
                        cfg.max_mute_duration)]

\* a flag that defaults to on for a group never configured
is_enabled_default_on(g) == g \notin DOMAIN enabled \/ enabled[g]

\* is_enabled(group_id): self._enabled.get(group_id, False)
is_enabled(g) == g \in DOMAIN enabled /\ enabled[g]

\* the outcome of a detector operation: record_message returns a duration
\* ("duration"), returns None ("none") or raises ("raise"); reset_user
\* deletes a record ("deleted") or finds none ("none")
DetRet(op, key, kind, value) ==
    [op |-> op, key |-> key, kind |-> kind, value |-> value]
\* the operations that return nothing
NoRet == DetRet("other", <<0, 0>>, "none", 0)

\* a dump that leaves out the groups that are switched off
EncodeStateEnabledOnly(d) ==
    [s \in {ToString(g) : g \in {x \in DOMAIN d : d[x]}} |-> TRUE]

\* json.dump writes the int keys of the mapping as strings
EncodeState(d) ==
    [s \in {ToString(g) : g \in DOMAIN d} |->
        d[CHOOSE g \in DOMAIN d : ToString(g) = s]]

\* _load_state: {int(k): v for k, v in data["enabled"].items()}
DecodeState(d) ==
    [g \in {x \in PersistGroups : ToString(x) \in DOMAIN d} |-> d[ToString(g)]]

NoFile == [st |-> "absent", data |-> <<>>]
\* a file opened for writing (truncated) whose json.dump did not complete
BrokenFile == [st |-> "broken", data |-> <<>>]

\* _save_state: the write succeeds, fails before the file is opened (the
\* file is as it was), or fails after; every exception is logged only
SaveState(file, d, outcome) ==
    IF outcome = "ok" THEN [st |-> "ok", data |-> EncodeState(d)]
    ELSE IF outcome = "fail_open" THEN file
    ELSE BrokenFile

SaveOutcomes == {"ok", "fail_open", "fail_write"}

\* _load_state: no file, or an unreadable one, leaves the mapping empty
LoadState(file) == IF file.st = "ok" THEN DecodeState(file.data) ELSE <<>>

\* set_enabled(group_id, enabled)
SetEnabled(g, b, outcome) ==
    /\ enabled' = DictPut(enabled, g, b)
    /\ state_file' = SaveState(state_file, enabled', outcome)
    /\ det_ret' = DetRet("set_enabled", <<g, 0>>, outcome, IF b THEN 1 ELSE 0)
    /\ UNCHANGED <<clientVars, dispVars, config, records>>

\* a flag that, once set, is never looked at again with the clock
StillMutedForever(rec) == rec.is_muted

\* "if record.is_muted: if now < record.last_mute_time +
\* record.last_mute_duration: return None"
StillMuted(rec) ==
    /\ rec.is_muted
    /\ now < rec.last_mute_time + Seconds(rec.last_mute_duration)

\* record_message(group_id, user_id)
RecordMessage(g, u) ==
    LET key    == <<g, u>>
        rec    == RecordOf(records, key)
        active == StillMuted(rec)
        ts     == DequeAppend(rec.timestamps, now)
        count  == RecentCount(ts, now - Seconds(config.time_window))
        calc   == calculate_mute_duration(config, rec.violation_count + 1)
    IN  /\ rec.violation_count < MaxViolations
        /\ IF ~is_enabled(g)
           THEN /\ records' = records
                /\ det_ret' = DetRet("record_message", key, "none", 0)
           ELSE IF active
           THEN /\ records' = DictPut(records, key, rec)
                /\ det_ret' = DetRet("record_message", key, "none", 0)
           ELSE IF ~Exceeds(count, config.message_threshold)
           THEN /\ records' = DictPut(records, key,
                       [rec EXCEPT !.is_muted = FALSE, !.timestamps = ts])
                /\ det_ret' = DetRet("record_message", key, "none", 0)
           ELSE IF calc.kind = "raise"
           THEN \* the exception leaves the record half updated
                /\ records' = DictPut(records, key,
                       [rec EXCEPT !.timestamps = ts,
                                   !.violation_count = @ + 1,
                                   !.is_muted = TRUE])
                /\ det_ret' = DetRet("record_message", key, "raise", 0)
           ELSE /\ records' = DictPut(records, key,
                       [timestamps |-> <<>>,
                        violation_count |-> rec.violation_count + 1,
                        last_mute_time |-> now,
                        last_mute_duration |-> calc.value,
                        is_muted |-> TRUE])
                /\ det_ret' = DetRet("record_message", key, "duration", calc.value)
        /\ UNCHANGED <<clientVars, dispVars, config, enabled, state_file>>

\* a reset that zeroes the violation count and keeps the record
ResetUserCountOnly(g, u) ==
    /\ records' = IF <<g, u>> \in DOMAIN records
                  THEN [records EXCEPT ![<<g, u>>].violation_count = 0]
                  ELSE records
    /\ det_ret' = DetRet("reset_user", <<g, u>>,
                         IF <<g, u>> \in DOMAIN records THEN "deleted" ELSE "none",
                         0)
    /\ UNCHANGED <<clientVars, dispVars, config, enabled, state_file>>

\* reset_user(group_id, user_id): the record is deleted when there is one
\* ("deleted", logged) and nothing happens otherwise
ResetUser(g, u) ==
    /\ records' = IF <<g, u>> \in DOMAIN records
                  THEN DictPop(records, <<g, u>>)
                  ELSE records
    /\ det_ret' = DetRet("reset_user", <<g, u>>,
                         IF <<g, u>> \in DOMAIN records THEN "deleted" ELSE "none",
                         0)
    /\ UNCHANGED <<clientVars, dispVars, config, enabled, state_file>>

\* the process is started again: SpamDetector() loads the state file
DetectorStart ==
    /\ enabled' = LoadState(state_file)
    /\ records' = <<>>
    /\ det_ret' = DetRet("start", <<0, 0>>, "none", 0)
    /\ UNCHANGED <<clientVars, dispVars, config, state_file>>

\* the record of a user as their k-th violation leaves it, at time 0
RecordAfter(cfg, k) ==
    [timestamps |-> <<>>, violation_count |-> k, last_mute_time |-> 0,
     last_mute_duration |-> calculate_mute_duration(cfg, k).value,
     is_muted |-> TRUE]

\* SpamDetector() with configuration cfg and no state file
InitDetector(cfg) ==
    /\ config = cfg
    /\ enabled = <<>>
    /\ records = <<>>
    /\ state_file = NoFile
    /\ det_ret = NoRet

\* a detector whose group 1 is enabled and whose user 1 has k violations
\* behind them, none of which overflowed
InitDetectorAfter(cfg, k) ==
    /\ calculate_mute_duration(cfg, k).kind = "duration"
    /\ config = cfg
    /\ enabled = (1 :> TRUE)
    /\ records = (<<1, 1>> :> RecordAfter(cfg, k))
    /\ state_file = SaveState(NoFile, enabled, "ok")
    /\ det_ret = DetRet("record_message", <<1, 1>>, "duration",
                        calculate_mute_duration(cfg, k).value)

\* main.py registers one handler, MessageHandler.handle
MainHandlers == <<"handle">>
\* a client with two handlers registered
TwoHandlers == <<"a", "b">>

Init == InitClient /\ InitDispatch(MainHandlers) /\ InitDetector(DefaultMute)

InitTwo == InitClient /\ InitDispatch(TwoHandlers) /\ InitDetector(DefaultMute)

InitDet ==
    /\ InitClient
    /\ InitDispatch(MainHandlers)
    /\ \E cfg \in MuteConfigs, k \in ViolationStarts :
          IF k = 0 THEN InitDetector(cfg) ELSE InitDetectorAfter(cfg, k)

\* ------------------------------------------------------ specification
\* connections that the peer closes, and run() connecting again
NextCycle ==
    \/ Connect
    \/ DisconnectCancel
    \/ DisconnectFinish
    \/ BridgeClose
    \/ ListenClosed

\* the run loop, the bridge and the receive loop
NextLoop ==
    \/ \E d \in TickSteps : Tick(d, MaxTicks)
    \/ NextCycle
    \/ ConnectFail
    \/ RetryWake
    \/ BridgeSend(EventFrame)
    \/ ListenRecv
    \/ \E c \in Callers : HandlerReturn(c)

\* the dispatch tasks of at most max events at a time
NextDispatch(max) ==
    \/ BridgeSend(EventFrame)
    \/ ListenDispatch(max)
    \/ DispatchRun
    \/ \E g \in DOMAIN dispatch, i \in DOMAIN message_handlers,
          o \in HandlerOutcomes : HandlerEnds(g, i, o)

\* tasks that had to wait for a permit
NextWake == \E g \in DOMAIN dispatch : DispatchWake(g)

\* the ban queue: handlers that submit, the worker, and the bridge's
\* replies to the calls that still wait for one
NextQueue ==
    \/ \E e \in DOMAIN echo_callbacks : BridgeSend(ReplyFrame(e, 0))
    \/ \E w \in DOMAIN workers :
          \/ WorkerGet(w)
          \/ WorkerCallTimeout(w)
          \/ WorkerCallDone(w)
          \/ WorkerSleepDone(w)
    \/ \E c \in Callers :
          \/ \E k \in Keys, d \in Durations, t \in BanWaits : Submit(c, k, d, t)
          \/ BanWaitTimeout(c)
          \/ BanWaitDone(c)

\* correlated calls made by handlers, and replies to any request the bridge
\* was ever sent, however late and however often
NextSession ==
    \/ \E n \in 1..echo_counter, r \in Retcodes :
          BridgeSend(ReplyFrame(EchoName(n), r))
    \/ \E c \in Callers :
          \/ \E t \in CallTimeouts : CallApi(c, t)
          \/ CallTimeout(c)
          \/ CallDone(c)

NextCancel == \E w \in DOMAIN workers : WorkerCancelled(w)

\* frames of every shape
NextFrames ==
    \E k \in FrameKinds, e \in FrameEchoes, pt \in FramePostTypes :
        BridgeSend(Frame(k, e, 0, pt))

\* the detector: the clock, messages and the admin commands
NextDetector ==
    \/ \E d \in DetTickSteps : Tick(d, MaxDetTicks)
    \/ \E g \in DetGroups, u \in DetUsers : RecordMessage(g, u)
    \/ \E g \in DetGroups, u \in DetUsers : ResetUser(g, u)
    \/ \E g \in DetGroups, b \in BOOLEAN : SetEnabled(g, b, "ok")

\* the detector's persistence: the admin commands with writes that may
\* fail, and restarts
NextPersist ==
    \/ \E g \in PersistGroups, b \in BOOLEAN, o \in SaveOutcomes :
          SetEnabled(g, b, o)
    \/ \E g \in PersistGroups, u \in DetUsers : RecordMessage(g, u)
    \/ DetectorStart

\* one handler that submits mutes and one that makes calls, both with the
\* default timeouts, over connection cycles, with a bridge that answers no
\* request and a clock that moves from one deadline to the next
NextWaits ==
    \/ NextCycle
    \/ NextCancel
    \/ BridgeSend(EventFrame)
    \/ ListenRecv
    \/ TimePasses
    \/ \E w \in DOMAIN workers :
          \/ WorkerGet(w)
          \/ WorkerCallTimeout(w)
          \/ WorkerCallDone(w)
          \/ WorkerSleepDone(w)
    \/ \E d \in Durations : Submit("h1", <<1, 1>>, d, DEFAULT_BAN_WAIT)
    \/ CallApi("h2", DEFAULT_CALL_TIMEOUT)
    \/ \E c \in Callers :
          \/ BanWaitTimeout(c)
          \/ BanWaitDone(c)
          \/ CallTimeout(c)
          \/ CallDone(c)
          \/ HandlerReturn(c)

\* the event loop runs what is ready: a timer that is due fires, a task
\* whose future is done is resumed, and the loop sleeps until the next
\* deadline.  Nothing is assumed about the bridge, about a worker taking
\* tasks from its queue, or about the run loop.
FairWaits ==
    /\ WF_vars(TimePasses)
    /\ \A w \in 1..MaxConnects :
          /\ WF_vars(w \in DOMAIN workers /\ WorkerCallTimeout(w))
          /\ WF_vars(w \in DOMAIN workers /\ WorkerCallDone(w))
          /\ WF_vars(w \in DOMAIN workers /\ WorkerSleepDone(w))
    /\ \A c \in Callers :
          /\ WF_vars(BanWaitTimeout(c))
          /\ WF_vars(BanWaitDone(c))
          /\ WF_vars(CallTimeout(c))
          /\ WF_vars(CallDone(c))

\* a session of one connection whose limiter is filled: handlers that are
\* only counted and hold their permit, two handlers that mute and call, the
\* worker, a bridge that may answer, and the timers' clock
NextSlots ==
    \/ Connect
    \/ EventArrives
    \/ \E e \in DOMAIN echo_callbacks : BridgeSend(ReplyFrame(e, 0))
    \/ ListenDispatch(MaxOthers + 1)
    \/ DispatchRun
    \/ ListenRecvSlot
    \/ TimePasses
    \/ \E w \in DOMAIN workers :
          \/ WorkerGet(w)
          \/ WorkerCallTimeout(w)
          \/ WorkerCallDone(w)
          \/ WorkerSleepDone(w)
    \/ \E c \in Callers :
          \/ BanWaitTimeout(c)
          \/ CallTimeout(c)
          \/ HandlerSlot(c)

\* the event loop runs what is ready, as in FairWaits
FairSlots ==
    /\ WF_vars(TimePasses)
    /\ \A w \in 1..MaxConnects :
          /\ WF_vars(w \in DOMAIN workers /\ WorkerCallTimeout(w))
          /\ WF_vars(w \in DOMAIN workers /\ WorkerCallDone(w))
          /\ WF_vars(w \in DOMAIN workers /\ WorkerSleepDone(w))
    /\ \A c \in Callers :
          /\ WF_vars(BanWaitTimeout(c))
          /\ WF_vars(CallTimeout(c))
          /\ WF_vars(BanWaitDoneStep(c) /\ SlotChange)
          /\ WF_vars(CallDoneStep(c) /\ SlotChange)

Next ==
    \/ NextLoop \/ NextCancel \/ NextQueue \/ NextSession \/ NextFrames
    \/ NextDispatch(MaxAlive) \/ NextWake \/ NextWaits \/ NextSlots
    \/ NextDetector
    \/ NextPersist

\* the whole client
Spec == Init /\ [][Next]_vars

\* the client with handlers that only submit mutes
SpecQueue == Init /\ [][NextLoop \/ NextCancel \/ NextQueue]_vars

\* the client with handlers that only make correlated calls
SpecSession == Init /\ [][NextLoop \/ NextCancel \/ NextSession]_vars

\* the receive loop under frames of every shape, with handlers that make
\* correlated calls
SpecFrames == Init /\ [][NextLoop \/ NextCancel \/ NextSession \/ NextFrames]_vars

\* the dispatch limiter over connection cycles, one handler registered
SpecLimiter ==
    Init /\ [][NextCycle \/ NextCancel \/ NextDispatch(MaxAlive) \/ NextWake]_vars

\* the dispatch of a few events to two handlers
SpecHandlers ==
    InitTwo /\ [][NextCycle \/ NextCancel \/ NextDispatch(MaxEvents)]_vars

\* the waits of handlers, over connection cycles
SpecWaits == Init /\ [][NextWaits]_vars /\ FairWaits

\* the session with its limiter filled
SpecSlots == Init /\ [][NextSlots]_vars /\ FairSlots

\* the detector alone
SpecDet == InitDet /\ [][NextDetector]_vars

\* the detector with a state file whose writes may fail, over restarts
SpecPersist == Init /\ [][NextPersist]_vars

\* =============================================================== claims
InSent(t) == \E i \in 1..Len(sent) : sent[i] = t

\* the tasks for a key that sit in the current FIFO or are being serviced
PendingTasks(key) ==
    {t \in 1..Len(tasks) :
        /\ tasks[t].key = key
        /\ \/ ban_queue # 0 /\ \E i \in 1..Len(queues[ban_queue]) :
                                   queues[ban_queue][i] = t
           \/ \E w \in DOMAIN workers :
                 workers[w].pc = "call" /\ workers[w].task = t}

\* the workers that have not ended, and those with a request unanswered
Alive == {w \in DOMAIN workers : workers[w].pc # "done"}
InFlight ==
    {w \in DOMAIN workers :
        /\ workers[w].pc = "call"
        /\ workers[w].echo \in DOMAIN echo_callbacks
        /\ ~Done(echo_callbacks[workers[w].echo])}

\* C1: of two submissions for (G,U), the second made while the task of the
\* first has not been finished by the worker, the second is coalesced into
\* the first: the two never lead to two set_group_ban requests.
C1_DedupOneCall ==
    \A t \in 1..Len(tasks) :
        tasks[t].pred # 0 => ~(InSent(t) /\ InSent(tasks[t].pred))

\* C2: for every key at most one BanTask is pending (in the FIFO or being
\* serviced).
C2_OnePendingPerKey ==
    \A key \in Keys : Cardinality(PendingTasks(key)) <= 1

\* C3: at most one worker is alive and at most one mute request of the
\* queue is unanswered, whatever the submits and the connection cycles.
C3_OneInFlight ==
    /\ Cardinality(Alive) <= 1
    /\ Cardinality(InFlight) <= 1

\* the second connection's worker has a request in flight while another
\* task waits in its queue
C3_Witness ==
    /\ Len(workers) = 2
    /\ InFlight = {2}
    /\ queues[ban_queue] # <<>>

\* C4: any two consecutive set_group_ban requests sent by the queue's
\* worker are at least BAN_QUEUE_INTERVAL apart.
C4_Pacing ==
    [][(Len(sent') > Len(sent) /\ Len(sent) > 0)
         => now' >= lastSend.at + BAN_QUEUE_INTERVAL]_vars

\* C5: requests go to the bridge in the order their tasks were enqueued.
C5_Fifo ==
    \A i, j \in 1..Len(sent) : i < j => sent[i] < sent[j]

\* the first of two tasks that were queued together has been sent, the
\* second still waits
C5_Witness ==
    /\ sent = <<1>>
    /\ ban_queue # 0
    /\ queues[ban_queue] = <<2>>
    /\ tasks[2].created_at < lastSend.at

\* C6: the result a call is resolved with is the reply frame that carries
\* the call's own correlation id.
C6_Correlation ==
    \A e \in DOMAIN echo_callbacks :
        echo_callbacks[e].st = "result" =>
            /\ echo_callbacks[e].val.kind = "reply"
            /\ echo_callbacks[e].val.echo = e

\* two calls wait; the later one has its reply, the earlier one has not
C6_Witness ==
    \E c1, c2 \in Callers :
        /\ callers[c1].pc = "wait_call"
        /\ callers[c2].pc = "wait_call"
        /\ \E m, n \in 1..echo_counter :
              /\ m < n
              /\ callers[c1].echo = EchoName(m)
              /\ callers[c2].echo = EchoName(n)
        /\ echo_callbacks[callers[c2].echo].st = "result"
        /\ echo_callbacks[callers[c1].echo].st = "pending"

\* an id whose call is over or has timed out
StaleEcho(e) ==
    \/ e \notin DOMAIN echo_callbacks
    \/ echo_callbacks[e].st = "cancelled"

\* C7: a call that times out leaves the table without its id; a reply for
\* such an id, also one that arrives between the timeout and the caller's
\* resumption, resolves nothing, starts no handler and leaves the receive
\* loop running.
C7_TimeoutCleanup ==
    [][/\ \A c \in Callers :
            (/\ callers[c].pc = "wait_call"
             /\ callers'[c].pc # "wait_call"
             /\ echo_callbacks[callers[c].echo].st = "cancelled")
            => callers[c].echo \notin DOMAIN echo_callbacks'
       /\ (/\ main_pc = "listen"
           /\ inbox.kind = "reply"
           /\ inbox' = NoFrame
           /\ StaleEcho(inbox.echo))
          => (/\ echo_callbacks' = echo_callbacks
              /\ callers' = callers
              /\ main_pc' = "listen")]_vars

\* the receive loop is about to read a reply for a call whose timeout has
\* fired and whose caller has not resumed yet
C7_Witness ==
    /\ main_pc = "listen"
    /\ inbox.kind = "reply"
    /\ inbox.echo \in DOMAIN echo_callbacks
    /\ echo_callbacks[inbox.echo].st = "cancelled"

\* C8: the id a call takes is the id of no call still in the table.
C8_FreshEcho ==
    [][\A c \in Callers :
          (callers[c].pc = "run" /\ callers'[c].pc = "wait_call")
          => callers'[c].echo \notin DOMAIN echo_callbacks]_vars

\* a call sent on the first connection still waits while a call sent on
\* the second connection has taken its id
C8_Witness ==
    \E c1, c2 \in Callers :
        /\ callers[c1].pc = "wait_call" /\ callers[c1].conn = 1
        /\ callers[c2].pc = "wait_call" /\ callers[c2].conn = 2

DetKeys == DetGroups \X DetUsers

\* this step is a record_message call for key
IsRecordCall(key) ==
    /\ det_ret'.op = "record_message"
    /\ det_ret'.key = key
    /\ (det_ret' # det_ret \/ records' # records)

\* the mute of a record is still running
MuteActive(rec) ==
    rec.is_muted /\ now < rec.last_mute_time + Seconds(rec.last_mute_duration)

\* the message arriving now brings the number of recent timestamps to T
ReachesThreshold(rec) ==
    RecentCount(DequeAppend(rec.timestamps, now),
                now - Seconds(config.time_window)) = config.message_threshold

\* C9: in an enabled group record_message returns a mute duration on
\* exactly the message that brings the user's count of timestamps newer
\* than now - W to T, and on no message that arrives while the last mute
\* runs; in a group that is not enabled it returns none.
C9_Trigger ==
    [][\A key \in DetKeys :
          IsRecordCall(key) =>
             (det_ret'.kind = "duration"
                <=> /\ is_enabled(key[1])
                    /\ ~MuteActive(RecordOf(records, key))
                    /\ ReachesThreshold(RecordOf(records, key)))]_vars

\* min(max, floor(base * multiplier^(k-1))), in exact arithmetic
ClaimedDuration(cfg, k) ==
    Min(cfg.max_mute_duration,
        ScaleUp(cfg.mute_duration, cfg.mute_multiplier, k - 1,
                cfg.max_mute_duration))

\* this step is a violation of the user of key: the count goes up by one
IsViolation(key) ==
    /\ key \in DOMAIN records'
    /\ records'[key].violation_count = RecordOf(records, key).violation_count + 1

\* C10: the k-th violation of a user returns min(max, floor(base *
\* multiplier^(k-1))); the duration is never above max and never below the
\* duration of the user's previous violation.  With the defaults the first
\* violation returns 60 and the second 120.
C10_Escalation ==
    [][\A key \in DetKeys :
          IsViolation(key) =>
             /\ det_ret' = DetRet("record_message", key, "duration",
                      ClaimedDuration(config, records'[key].violation_count))
             /\ det_ret'.value <= config.max_mute_duration
             /\ det_ret'.value >= RecordOf(records, key).last_mute_duration]_vars

\* this step is a reset_user call for key
IsResetCall(key) ==
    /\ det_ret'.op = "reset_user"
    /\ det_ret'.key = key
    /\ (det_ret' # det_ret \/ records' # records)

\* what the first message of a never-seen user leaves behind: the message is
\* recorded, or it is the user's first violation
FirstEverRecords(key) ==
    {[NewRecord EXCEPT !.timestamps = <<now>>],
     [timestamps |-> <<>>, violation_count |-> 1, last_mute_time |-> now,
      last_mute_duration |-> ClaimedDuration(config, 1), is_muted |-> TRUE]}

\* C11: reset_user(G,U) deletes the record of U in G whatever its state and
\* leaves every other record as it was; the user is then in the state of a
\* never-seen user (no record), and their next message in an enabled group
\* is handled as a first-ever message: no residual mute, timestamps or
\* violation count.
C11_Reset ==
    [][\A key \in DetKeys :
          /\ IsResetCall(key) =>
                /\ key \notin DOMAIN records'
                /\ RecordOf(records', key) = NewRecord
                /\ \A k \in DOMAIN records \ {key} :
                      k \in DOMAIN records' /\ records'[k] = records[k]
                /\ DOMAIN records' \subseteq DOMAIN records
          /\ (/\ det_ret.op = "reset_user" /\ det_ret.key = key
              /\ IsRecordCall(key) /\ is_enabled(key[1])) =>
                /\ records'[key] \in FirstEverRecords(key)
                /\ det_ret'.kind = IF records'[key].is_muted THEN "duration"
                                   ELSE "none"
                /\ \A k \in DOMAIN records \ {key} : records'[k] = records[k]]_vars

\* the record of a muted user with violations behind them has just been
\* deleted while another user's record, also muted, is still there
C11_Witness ==
    /\ det_ret = DetRet("reset_user", <<1, 1>>, "deleted", 0)
    /\ <<1, 1>> \notin DOMAIN records
    /\ <<1, 2>> \in DOMAIN records
    /\ records[<<1, 2>>].is_muted

\* the enable flag of a group is false or unknown
GroupOff(g) == g \notin DOMAIN enabled \/ ~enabled[g]

\* C12: while the enable flag of a group is false or unknown,
\* record_message returns no action for every user of the group and leaves
\* the whole record store as it was: no record created, no timestamp
\* appended, no count or mute field changed.
C12_DisabledFrame ==
    [][\A key \in DetKeys :
          (IsRecordCall(key) /\ GroupOff(key[1])) =>
             /\ det_ret' = DetRet("record_message", key, "none", 0)
             /\ records' = records]_vars

\* a message of a never-seen user has just been handled in a group that was
\* switched off, while the group holds the record of a muted user
C12_Witness ==
    /\ det_ret = DetRet("record_message", <<1, 2>>, "none", 0)
    /\ 1 \in DOMAIN enabled
    /\ ~enabled[1]
    /\ <<1, 2>> \notin DOMAIN records
    /\ <<1, 1>> \in DOMAIN records
    /\ records[<<1, 1>>].is_muted

\* this step takes task t off the queue of worker w
Dequeues(w, t) ==
    /\ workers[w].pc = "get"
    /\ queues[workers[w].q] # <<>>
    /\ Head(queues[workers[w].q]) = t
    /\ queues'[workers[w].q] = Tail(queues[workers[w].q])

\* the age of a task at the present moment
Age(t) == now - tasks[t].created_at

\* C13: a task that is more than BAN_TASK_TIMEOUT (30 s) old when the
\* worker takes it off the queue is not sent to the bridge, then or later;
\* its future, unless done already, is resolved with TimeoutError, and its
\* key leaves the pending set.
C13_StaleTask ==
    [][/\ \A w \in DOMAIN workers, t \in 1..Len(tasks) :
            (Dequeues(w, t) /\ Age(t) > BAN_TASK_TIMEOUT) =>
               /\ sent' = sent
               /\ echo_counter' = echo_counter
               /\ tasks'[t].future =
                     IF Done(tasks[t].future) THEN tasks[t].future
                     ELSE SetException(tasks[t].future, "timeout")
               /\ tasks[t].key \notin pending_bans'
       /\ Len(sent') > Len(sent) =>
            /\ Age(sent'[Len(sent')]) <= BAN_TASK_TIMEOUT
            /\ ~InSent(sent'[Len(sent')])]_vars

\* the second of two tasks was abandoned after more than 30 s in the queue:
\* it was never sent, its future holds TimeoutError while its caller still
\* waits, and its key has left the pending set
C13_Witness ==
    /\ Len(tasks) = 2
    /\ sent = <<1>>
    /\ tasks[2].served
    /\ tasks[2].future = SetException(NewFuture, "timeout")
    /\ tasks[2].key \notin pending_bans
    /\ \E c \in Callers : callers[c].pc = "wait_ban" /\ callers[c].task = 2
    /\ \A q \in DOMAIN queues : queues[q] = <<>>

\* C14: once disconnect() has completed, no call that was pending when it
\* began is still waiting: each has been resolved (as cancelled) and its id
\* has left the correlation table.
C14_DisconnectCancelsCalls ==
    main_pc # "await_worker" =>
        \A c \in Callers :
            callers[c].disc =>
               /\ callers[c].pc # "wait_call"
               /\ callers[c].echo \notin DOMAIN echo_callbacks

\* the receive loop reads the frame in its inbox in this step
ReadsFrame == main_pc = "listen" /\ inbox # NoFrame /\ inbox' = NoFrame

\* the handler tasks started in this step
Started == {c \in Callers : callers[c].pc = "idle" /\ callers'[c].pc = "run"}

\* C15: a frame with an echo and a status or retcode is never dispatched,
\* whether or not its echo belongs to a pending call; a frame whose
\* post_type is meta_event is never dispatched; for every other frame one
\* dispatch task is started and the receive loop goes on to the next frame
\* while the task, and those started before, are still running.
C15_FrameRouting ==
    [][ReadsFrame =>
         /\ main_pc' = "listen"
         /\ \A c \in Callers \ Started : callers'[c] = callers[c]
         /\ IF \/ inbox.echo # NoEcho /\ inbox.kind = "reply"
               \/ inbox.post_type = "meta_event"
            THEN Started = {}
            ELSE Cardinality(Started) = 1 /\ echo_callbacks' = echo_callbacks]_vars

\* the loop has read a second forwarded frame while the handler of the
\* first still waits for the reply to a call, and a heartbeat is next
C15_Witness ==
    /\ main_pc = "listen"
    /\ inbox.post_type = "meta_event"
    /\ \E c1, c2 \in Callers :
          callers[c1].pc = "wait_call" /\ callers[c2].pc = "run"

\* C16: whatever the connection cycles, and with handlers of earlier
\* connections still running, at most MAX_CONCURRENT_HANDLERS dispatches
\* execute their handlers at the same time.
C16_Ceiling == Running <= MAX_CONCURRENT_HANDLERS

\* in this step handler number i raises in a task of semaphore g
IsRaise(g, i) ==
    /\ disp_log' = Step("raise", g, i)
    /\ g \in DOMAIN dispatch
    /\ dispatch'[g].at[i] = dispatch[g].at[i] - 1

\* C17: when a handler raises on an event, the task goes on to the next
\* registered handler for that event and, after the last one, releases its
\* permit; the tasks of other events stay where they are and the receive
\* loop is as it was: it keeps receiving.
C17_HandlerIsolation ==
    [][\A g \in DOMAIN dispatch, i \in DOMAIN message_handlers :
          IsRaise(g, i) =>
             /\ IF i < Len(message_handlers)
                THEN /\ dispatch'[g].at[i + 1] = dispatch[g].at[i + 1] + 1
                     /\ semaphores' = semaphores
                ELSE semaphores' = [semaphores EXCEPT ![g] = @ + 1]
             /\ semaphores'[g] + Inside(dispatch'[g]) = MAX_CONCURRENT_HANDLERS
             /\ \A j \in DOMAIN message_handlers \ {i, i + 1} :
                   dispatch'[g].at[j] = dispatch[g].at[j]
             /\ dispatch'[g].blocked = dispatch[g].blocked
             /\ \A h \in DOMAIN dispatch \ {g} : dispatch'[h] = dispatch[h]
             /\ created' = created
             /\ <<main_pc, ws, inbox>>' = <<main_pc, ws, inbox>>]_vars

\* the first of two handlers has just raised on one event and the task
\* awaits the second, the task of another event awaits the first, and the
\* receive loop has the next frame to read
C17_Witness ==
    /\ disp_log = Step("raise", 1, 1)
    /\ dispatch[1].at[2] >= 1
    /\ dispatch[1].at[1] >= 1
    /\ main_pc = "listen"
    /\ inbox # NoFrame

\* C18 as claimed: in every state every record with is_muted true has
\* now < last_mute_time + last_mute_duration.
C18_MutedOnlyWhileRunning ==
    \A key \in DOMAIN records :
        records[key].is_muted =>
            now < records[key].last_mute_time
                    + Seconds(records[key].last_mute_duration)

\* C18, amended: is_muted is kept lazily.  It changes only in a
\* record_message call for the user in an enabled group (or with the
\* record's deletion); it becomes true only with a violation; after such a
\* call it is true exactly if the call found the mute still running or
\* registered a violation, and a call that returns a duration leaves the
\* record muted from now for that duration.  Between calls the passing of
\* time does not clear it.
C18_LazyFlag ==
    [][\A key \in DetKeys :
          LET old == RecordOf(records, key)
              new == RecordOf(records', key)
              hit == new.violation_count = old.violation_count + 1
          IN  /\ (IsRecordCall(key) /\ is_enabled(key[1])) =>
                    (new.is_muted <=> (MuteActive(old) \/ hit))
              /\ ~(IsRecordCall(key) /\ is_enabled(key[1])) =>
                    (new.is_muted = old.is_muted \/ key \notin DOMAIN records')
              /\ (new.is_muted /\ ~old.is_muted) => hit
              /\ (IsRecordCall(key) /\ det_ret'.kind = "duration") =>
                    /\ new.is_muted
                    /\ new.last_mute_time = now'
                    /\ new.last_mute_duration = det_ret'.value]_vars

\* the first mute of a user has run out, no message of theirs has arrived
\* since, and the flag is still set
C18_Witness ==
    /\ <<1, 1>> \in DOMAIN records
    /\ records[<<1, 1>>].is_muted
    /\ records[<<1, 1>>].violation_count = 1
    /\ records[<<1, 1>>].last_mute_duration > 0
    /\ now >= records[<<1, 1>>].last_mute_time
                + Seconds(records[<<1, 1>>].last_mute_duration)

\* C19: in an enabled group a message that arrives while the record is
\* muted and now < last_mute_time + last_mute_duration changes nothing and
\* returns no signal; one that arrives while it is muted and the period has
\* elapsed is handled as a message to an idle record: its timestamp is
\* recorded and, if the recent count stays below the threshold, the record
\* is left idle with that timestamp; otherwise the message completes the
\* next violation.
C19_MutedHandling ==
    [][\A key \in DetKeys :
          LET old == RecordOf(records, key)
              new == RecordOf(records', key)
              ts  == DequeAppend(old.timestamps, now)
              cnt == RecentCount(ts, now - Seconds(config.time_window))
          IN  (IsRecordCall(key) /\ is_enabled(key[1]) /\ old.is_muted) =>
                 IF now < old.last_mute_time + Seconds(old.last_mute_duration)
                 THEN /\ records' = records
                      /\ det_ret' = DetRet("record_message", key, "none", 0)
                 ELSE IF cnt < config.message_threshold
                 THEN /\ new = [old EXCEPT !.is_muted = FALSE, !.timestamps = ts]
                      /\ det_ret' = DetRet("record_message", key, "none", 0)
                 ELSE /\ new.violation_count = old.violation_count + 1
                      /\ new.is_muted]_vars

\* the first message after a mute that has run out was recorded and left
\* the user idle
C19_Witness ==
    /\ det_ret = DetRet("record_message", <<1, 1>>, "none", 0)
    /\ <<1, 1>> \in DOMAIN records
    /\ ~records[<<1, 1>>].is_muted
    /\ records[<<1, 1>>].violation_count >= 1
    /\ records[<<1, 1>>].timestamps = <<now>>
    /\ now >= records[<<1, 1>>].last_mute_time
                + Seconds(records[<<1, 1>>].last_mute_duration)

\* the handler waits in set_group_ban or in call_api
Waiting(c) == callers[c].pc \in {"wait_ban", "wait_call"}

\* C20: every caller that waits in call_api or in set_group_ban gets its
\* answer or its failure: whatever the bridge, the worker and the run loop
\* do or fail to do, it is resumed, and it never waits at a time later
\* than the deadline its own timeout has set.
C20_NoCallerBlocked ==
    /\ \A c \in Callers : Waiting(c) ~> ~Waiting(c)
    /\ [](\A c \in Callers : Waiting(c) => now <= callers[c].deadline)

\* the caller's own timeout has ended its wait for a task that still sits
\* in the queue of a worker that disconnect() has stopped
C20_Witness ==
    \E c \in Callers :
        /\ callers[c].pc = "wait_ban"
        /\ tasks[callers[c].task].future.st = "cancelled"
        /\ ~tasks[callers[c].task].served
        /\ \E q \in DOMAIN queues :
              /\ queues[q] # <<>>
              /\ Head(queues[q]) = callers[c].task
              /\ workers[q].pc = "done"

\* C21: set_enabled leaves the flag it was given in memory whether or not
\* the write succeeds and changes no other flag; after a write that
\* succeeds the file read back is the mapping in memory; only set_enabled
\* writes the file; and a detector that starts has the mapping read back
\* from the file (none, when there is no readable file) and no records.
C21_FlagPersistence ==
    [][LET r == det_ret'
       IN  /\ r.op = "set_enabled" =>
                /\ r.key[1] \in DOMAIN enabled'
                /\ enabled'[r.key[1]] = (r.value = 1)
                /\ DOMAIN enabled' = DOMAIN enabled \cup {r.key[1]}
                /\ \A g \in DOMAIN enabled \ {r.key[1]} :
                      enabled'[g] = enabled[g]
                /\ records' = records
                /\ r.kind = "ok" =>
                      /\ state_file'.st = "ok"
                      /\ DOMAIN state_file'.data =
                            {ToString(g) : g \in DOMAIN enabled'}
                      /\ \A g \in DOMAIN enabled' :
                            state_file'.data[ToString(g)] = enabled'[g]
           /\ r.op # "set_enabled" => state_file' = state_file
           /\ r.op = "start" =>
                /\ records' = <<>>
                /\ IF state_file.st = "ok"
                   THEN /\ DOMAIN enabled' =
                             {g \in PersistGroups :
                                 ToString(g) \in DOMAIN state_file.data}
                        /\ \A g \in DOMAIN enabled' :
                              enabled'[g] = state_file.data[ToString(g)]
                   ELSE enabled' = <<>>]_vars

\* a detector that had records was started again and has loaded both
\* flags, one on and one off, from the file
C21_Witness ==
    /\ det_ret.op = "start"
    /\ records = <<>>
    /\ DOMAIN enabled = {1, 2}
    /\ enabled[1] /\ ~enabled[2]
    /\ state_file.st = "ok"

\* a step in which caller c leaves its wait for a task whose future its own
\* timeout has cancelled, or in which that timeout cancels the future
ReleasedByTimeout(c) ==
    /\ callers[c].pc = "wait_ban"
    /\ \/ /\ tasks[callers[c].task].future.st = "cancelled"
          /\ callers'[c].pc # "wait_ban"
       \/ /\ tasks[callers[c].task].future.st = "pending"
          /\ tasks'[callers[c].task].future.st = "cancelled"

\* the number of times the call for task t was sent
TimesSent(t) == Cardinality({i \in 1..Len(sent) : sent[i] = t})

\* C22: the timeout of a submit releases the caller and touches neither the
\* queues, the worker nor the requests sent; a worker that dequeues the
\* task afterwards, not older than BAN_TASK_TIMEOUT, makes its call (sent
\* when the socket is open, failing at once otherwise), no call of a task
\* is sent twice, and the worker that ends the call leaves the cancelled
\* future as it is, drops the key and goes on to its sleep.
C22_TimeoutReleasesCallerOnly ==
    [][/\ \A c \in Callers :
             ReleasedByTimeout(c) =>
                /\ queues' = queues
                /\ workers' = workers
                /\ sent' = sent
                /\ echo_callbacks' = echo_callbacks
                /\ \A t \in 1..Len(tasks) :
                      t # callers[c].task => tasks'[t] = tasks[t]
       /\ \A w \in DOMAIN workers, t \in 1..Len(tasks) :
             (Dequeues(w, t) /\ tasks[t].future.st = "cancelled"
                /\ Age(t) <= BAN_TASK_TIMEOUT) =>
                /\ tasks'[t].future = tasks[t].future
                /\ IF ws = "open"
                   THEN /\ sent' = Append(sent, t)
                        /\ workers'[w].pc = "call"
                        /\ workers'[w].task = t
                   ELSE /\ sent' = sent
                        /\ tasks'[t].served
                        /\ workers'[w].pc = "sleep"
       /\ \A t \in 1..Len(tasks) : TimesSent(t)' <= 1
       /\ \A w \in DOMAIN workers :
             (/\ workers[w].pc = "call"
              /\ workers'[w].pc = "sleep"
              /\ tasks[workers[w].task].future.st = "cancelled") =>
                /\ tasks'[workers[w].task].future = tasks[workers[w].task].future
                /\ tasks'[workers[w].task].served
                /\ tasks[workers[w].task].key \notin pending_bans']_vars

\* the call of a task was sent and has ended after the caller's timeout had
\* cancelled the task's future, and the worker is at its next step
C22_Witness ==
    \E t \in 1..Len(tasks), w \in DOMAIN workers :
        /\ tasks[t].future.st = "cancelled"
        /\ tasks[t].served
        /\ TimesSent(t) = 1
        /\ lastSend.at > tasks[t].created_at
        /\ workers[w].pc \in {"sleep", "get"}
        /\ ~workers[w].cancel

\* worker w ends, in this step, the service of the task it had sent
EndsCall(w) == workers[w].pc = "call" /\ workers'[w].pc # "call"

\* C23: a worker that takes a task and does not send its call (stale, or
\* the call raises at once) resolves a pending future with the failure,
\* drops the key and stays in its loop; a worker whose call ends resolves a
\* pending future with the reply or, on a timeout, with TimeoutError, drops
\* the key and sleeps before its next get(); a worker whose sleep ends is
\* back at get() on the current queue; a worker ends only when it was
\* cancelled, and a worker cancelled inside its call still drops the key.
C23_WorkerSupervision ==
    [][\A w \in DOMAIN workers :
          /\ \A t \in 1..Len(tasks) :
                (Dequeues(w, t) /\ workers'[w].pc # "call") =>
                   /\ tasks[t].key \notin pending_bans'
                   /\ workers'[w].pc \in {"get", "sleep"}
                   /\ Done(tasks'[t].future)
                   /\ ~Done(tasks[t].future) =>
                         /\ tasks'[t].future.st = "exception"
                         /\ tasks'[t].future.val.kind =
                               IF Age(t) > BAN_TASK_TIMEOUT THEN "timeout"
                               ELSE "error"
          /\ EndsCall(w) =>
                LET t == workers[w].task
                    reply == echo_callbacks[workers[w].echo]
                IN  /\ tasks[t].key \notin pending_bans'
                    /\ workers[w].echo \notin DOMAIN echo_callbacks'
                    /\ IF workers[w].cancel
                       THEN /\ workers'[w].pc = "done"
                            /\ tasks'[t].future = tasks[t].future
                       ELSE /\ workers'[w].pc = "sleep"
                            /\ workers'[w].deadline = now + BAN_QUEUE_INTERVAL
                            /\ Done(tasks'[t].future)
                            /\ ~Done(tasks[t].future) =>
                                  IF reply.st = "result"
                                  THEN tasks'[t].future =
                                         [st |-> "result", val |-> reply.val]
                                  ELSE /\ tasks'[t].future.st = "exception"
                                       /\ tasks'[t].future.val.kind = "timeout"
          /\ (workers[w].pc = "sleep" /\ workers'[w].pc # "sleep") =>
                \/ workers'[w].pc = "get" /\ workers'[w].q = ban_queue
                \/ workers'[w].pc = "done" /\ workers[w].cancel
          /\ (workers[w].pc # "done" /\ workers'[w].pc = "done") =>
                workers[w].cancel]_vars

\* the call of one task has timed out, its future holds the TimeoutError
\* and its key is gone, and the same worker has sent the call of the next
C23_Witness ==
    \E t \in 1..Len(tasks), w \in DOMAIN workers :
        /\ tasks[t].future.st = "exception"
        /\ tasks[t].future.val.kind = "timeout"
        /\ TimesSent(t) = 1
        /\ workers[w].pc = "call"
        /\ workers[w].task > t
        /\ sent = <<t, workers[w].task>>
        /\ ws = "open"
        /\ Len(workers) = 1

\* the frame being read has an echo and neither a status nor a retcode
EchoOnly(f) == f.echo # NoEcho /\ f.kind # "reply"

\* C24: reading a frame that has an echo and neither a status nor a retcode
\* resolves no pending call and starts no handler task.
C24_EchoOnlyDropped ==
    [][(ReadsFrame /\ EchoOnly(inbox)) =>
          /\ echo_callbacks' = echo_callbacks
          /\ Started = {}]_vars

\* the worker that connect() started last is running
LiveWorker(w) ==
    w = ban_worker_task /\ w \in DOMAIN workers /\ workers[w].pc # "done"

\* a task for key k is in the queue that the live worker reads, or is the
\* task whose call the live worker has sent
InLiveService(k) ==
    \E t \in 1..Len(tasks), w \in DOMAIN workers :
        /\ tasks[t].key = k
        /\ LiveWorker(w)
        /\ \/ workers[w].pc = "call" /\ workers[w].task = t
           \/ /\ workers[w].q = ban_queue
              /\ \E i \in 1..Len(queues[ban_queue]) : queues[ban_queue][i] = t

\* C25: in every state in which set_group_ban called for key k returns the
\* synthetic reply (a handler is running and k is in the pending set; the
\* reply is returned without an await), a task for k is queued for the
\* live worker or in its service.
C25_SyntheticMeansQueued ==
    \A c \in Callers, k \in Keys :
        (callers[c].pc = "run" /\ ban_queue # 0 /\ IsQueued(k)) =>
           InLiveService(k)

\* a caller is inside set_group_ban for key k
SubmitWaiting(k) ==
    \E c \in Callers : callers[c].pc = "wait_ban" /\ callers[c].key = k

\* a task for key k sits in a queue or is the task of a worker's call
QueuedOrInService(k) ==
    \E t \in 1..Len(tasks) :
        /\ tasks[t].key = k
        /\ \/ \E q \in DOMAIN queues :
                 \E i \in 1..Len(queues[q]) : queues[q][i] = t
           \/ \E w \in DOMAIN workers :
                 workers[w].pc = "call" /\ workers[w].task = t

\* every key of the pending set has a waiting caller or a task
OnlyLiveKeys ==
    \A k \in pending_bans : SubmitWaiting(k) \/ QueuedOrInService(k)

\* C26: a key in the pending set leaves it again, whatever the bridge and
\* the run loop do; and a key is in the pending set only while a caller is
\* inside set_group_ban for it or a task for it is queued or in service.
C26_PendingSetDrains ==
    /\ \A k \in Keys : (k \in pending_bans) ~> (k \notin pending_bans)
    /\ []OnlyLiveKeys

\* the caller's timeout has removed the key of a task that still sits in
\* the queue of a worker that has ended
C26_Witness ==
    /\ pending_bans = {}
    /\ \A c \in Callers : callers[c].pc # "wait_ban"
    /\ \E t \in 1..Len(tasks), q \in DOMAIN queues :
          /\ tasks[t].future.st = "cancelled"
          /\ ~tasks[t].served
          /\ queues[q] # <<>>
          /\ Head(queues[q]) = t
          /\ workers[q].pc = "done"

\* no permit of the session's semaphore is free
Saturated == semaphores # <<>> /\ semaphores[Len(semaphores)] = 0

\* the handler tasks followed one by one that hold a permit
Holding == {c \in Callers : callers[c].pc # "idle"}

\* C27: the permits are held by the handler tasks that have started and not
\* ended; a handler suspended in call_api or set_group_ban while no permit
\* is free ends and gives its permit back; and with no permit free the
\* receive loop still resolves the call a reply belongs to and the worker
\* still sends the call of a task it takes from the queue.
C27_SaturationNoDeadlock ==
    /\ \A c \in Callers :
          (Saturated /\ Waiting(c)) ~> (callers[c].pc = "idle" /\ ~Saturated)
    /\ [](semaphores # <<>> =>
            semaphores[Len(semaphores)] + Running + Cardinality(Holding)
               = MAX_CONCURRENT_HANDLERS)
    /\ [][/\ (/\ Saturated
              /\ ReadsFrame
              /\ inbox.kind = "reply"
              /\ inbox.echo \in DOMAIN echo_callbacks
              /\ echo_callbacks[inbox.echo].st = "pending") =>
                echo_callbacks'[inbox.echo] = [st |-> "result", val |-> inbox]
          /\ \A w \in DOMAIN workers, t \in 1..Len(tasks) :
                (/\ Saturated
                 /\ Dequeues(w, t)
                 /\ Age(t) <= BAN_TASK_TIMEOUT
                 /\ ws = "open") =>
                   /\ sent' = Append(sent, t)
                   /\ workers'[w].pc = "call"]_vars

\* every permit is held, by the counted handlers and by one handler that
\* waits in set_group_ban and one that waits in call_api, and the worker
\* has sent the call of the first one's task
C27_Witness ==
    /\ Saturated
    /\ Running = MaxOthers
    /\ callers["h1"].pc = "wait_ban"
    /\ callers["h2"].pc = "wait_call"
    /\ \E w \in DOMAIN workers :
          workers[w].pc = "call" /\ workers[w].task = callers["h1"].task

====
